---- MODULE Spec2Model ----
(***************************************************************************)
(* Transfer engine of viewscreen (internal/downloader, primary variant):   *)
(* the registry l.transfers, the scheduler goroutine manager(), one worker *)
(* goroutine transfer(t) per admitted Transfer, the sentinel files         *)
(* <dir>.downloading / <dir>.uploading under the download root, and the    *)
(* library listing ListDownloads().                                        *)
(*                                                                         *)
(* Every section of code that runs under the registry lock l.mu is one     *)
(* action.  Worker code between two lock sections is one action per        *)
(* file-system or network effect.  Remove holds l.mu for its whole body;   *)
(* its file-system calls commute with the lock-free worker steps that can  *)
(* overlap them, so it is one action as well.                              *)
(***************************************************************************)
EXTENDS Integers, Sequences, FiniteSets, TLC

(***************************************************************************)
(* Bounds of the model.                                                    *)
(***************************************************************************)
\* Transfer records allocated by Add over one run of the process.
MaxObjs == 2
\* Files in a friend's file list; pieces of a torrent (one unit of length each).
NFiles == 2
\* Largest slot limit a configuration sets.
MaxSlots == 1
\* Cap on Torrent.Stats().DataBytesWritten, in units of one piece.
MaxUp == 1
\* The seed ratio of the configuration file, in halves.
ConfiguredRatio == 1
\* Largest runtime.NumCPU() of a host.
MaxCPU == 2
\* transcode goroutines spawned over one run of the process.
MaxSpawn == 2
\* Concurrent callers of Transcoder.Add.
NCallers == 2
\* Cap on len(t.queue).
MaxQueue == 2
\* Size of a source media file.
SrcSize == 10
\* Largest free space and largest required size handed to the storage gate.
MaxGate == 20
\* Names in a directory handed to ls.
MaxNames == 3

(***************************************************************************)
(* Program constants.                                                      *)
(***************************************************************************)
defaultTransferSlots == 5
\* Seed ratios are counted in halves: 3 halves = 1.5.
defaultTorrentRatio == 3
\* Ratios a configuration sets: 0 and the configured one.
RatioValues == {0, ConfiguredRatio}

Objs == 1..MaxObjs
\* Directory names directly under the download root, in lexical order.
Dirs == {1, 2}
NoDir == 0

(***************************************************************************)
(* Targets.  rawurl strings handed to Add; url.Parse + String() lowercases *)
(* the scheme and rejects a string with an empty scheme before ':'.        *)
(***************************************************************************)
MagnetURL == "magnet:?xt=m"
FriendURL == "https://peer/watcher/v1/downloads/files/movieA?friend=me"
MetaURL == "https://host/b.torrent"
RawURLs == {MagnetURL, "MAGNET:?xt=m", FriendURL, MetaURL, ":bad"}
URLs == {MagnetURL, FriendURL, MetaURL}
NoURL == "none"

\* url.Parse(rawurl) followed by u.String(); "error" when the parse fails.
Canon(raw) ==
  CASE raw = "MAGNET:?xt=m" -> MagnetURL
    [] raw = ":bad" -> "error"
    [] OTHER -> raw

\* fmt.Sprintf("%x", md5.Sum([]byte(u.String()))): one digest per canonical URL.
Md5Hex(u) ==
  CASE u = MagnetURL -> "3f1a"
    [] u = FriendURL -> "9c07"
    [] u = MetaURL -> "b2e5"
    [] OTHER -> "0000"

IDs == {Md5Hex(u) : u \in URLs}

\* transfer(): the friend branch is taken for the v1 file-list path with a
\* non-empty friend parameter.
IsFriendURL(u) == u = FriendURL
\* t.URL.Scheme
Scheme(u) == IF u = MagnetURL THEN "magnet" ELSE "https"

\* The directory a target downloads into: torrent info name (or basename
\* without extension) for torrents, basename of the URL path for a friend.
\* The magnet's torrent and the friend's download carry the same name.
DirOf(u) ==
  CASE u = MagnetURL -> 1
    [] u = FriendURL -> 1
    [] u = MetaURL -> 2

\* sum of file lengths of a download
TotalLength == NFiles

VARIABLES
  phase,      \* "boot" before NewDownloader has run, "running" after
  slots,      \* Config.TransferSlots
  ratio,      \* Config.TorrentRatio, in halves
  transfers,  \* l.transfers: sequence of Transfer references, insertion order
  tr,         \* the Transfer records, by reference
  nobj,       \* number of Transfer records allocated so far
  pc,         \* position of the worker goroutine of each Transfer
  ctxDone,    \* the worker's context has been cancelled
  werr,       \* the worker's local err
  fidx,       \* friend worker: index of the file being fetched
  tor,        \* torrent client state of each Transfer's torrent handle
  dlmark,     \* directories d for which <root>/<d>.downloading exists
  upmark,     \* directories d for which <root>/<d>.uploading exists
  disk        \* contents of the directories under the root

\* The transfer engine's variables.
dvars == <<phase, slots, ratio, transfers, tr, nobj, pc, ctxDone, werr, fidx,
           tor, dlmark, upmark, disk>>

\* The transcoder (internal/transcoder).
VARIABLES
  concurrency, \* t.concurrency
  queue,       \* t.queue: sequence of source paths
  running,     \* t.running: source path -> the worker whose cmd it holds, 0 = no key
  job,         \* the transcode(srcname) goroutines spawned so far
  njob,        \* number of goroutines spawned so far
  call,        \* the callers of Transcoder.Add, between its lock sections
  files        \* size of each file of the media directory, 0 = absent

tvars == <<concurrency, queue, running, job, njob, call, files>>

\* The library helpers of package main and the calls of the pure functions.
VARIABLES
  shared,     \* download ids d for which <root>/.shared/<d> exists
  sharedDir,  \* <root>/.shared exists
  last        \* the last call made: function, arguments, result

hvars == <<shared, sharedDir, last>>

\* The two mutexes of the engine and the goroutines that take them.
VARIABLES
  lpc,  \* per goroutine: the index of the instruction it executes next
  wr,   \* per mutex: the goroutine holding it for writing, or "none"
  rd    \* per mutex: the goroutines holding it for reading

lvars == <<lpc, wr, rd>>

vars == <<dvars, tvars, hvars, lvars>>

(***************************************************************************)
(* Records.                                                                *)
(***************************************************************************)
\* &Transfer{}: every field at its zero value.
ZeroTransfer ==
  [ID |-> "", URL |-> NoURL, Started |-> FALSE, Completed |-> FALSE,
   Cancel |-> FALSE, DownloadDir |-> NoDir, Uploading |-> FALSE,
   SeedRatio |-> 0, Torrent |-> FALSE, Error |-> "nil", DownloadID |-> NoDir]

\* A torrent handle inside the client: info known, DownloadAll called,
\* dropped, pieces missing, data bytes written to peers.
ZeroTorrent ==
  [info |-> FALSE, all |-> FALSE, dropped |-> FALSE, missing |-> TotalLength,
   written |-> 0]

\* A directory under the root: present or not, and the state of each file.
NoDirEntry == [exists |-> FALSE, files |-> [i \in 1..NFiles |-> "none"]]

IsStarted(o) == tr[o].Started
IsCompleted(o) == tr[o].Completed
IsActive(o) == IsStarted(o) /\ ~IsCompleted(o)

Range(s) == {s[i] : i \in 1..Len(s)}

\* findByURL with the comparison inverted: the first record of another URL.
findByURLInverted(rawurl) ==
  IF \E i \in 1..Len(transfers) : tr[transfers[i]].URL # rawurl
  THEN transfers[CHOOSE i \in 1..Len(transfers) :
                   /\ tr[transfers[i]].URL # rawurl
                   /\ \A j \in 1..(i - 1) : tr[transfers[j]].URL = rawurl]
  ELSE 0

\* findByURL: the first record with that URL, 0 for ErrTransferNotFound.
findByURL(rawurl) ==
  IF \E i \in 1..Len(transfers) : tr[transfers[i]].URL = rawurl
  THEN transfers[CHOOSE i \in 1..Len(transfers) :
                   /\ tr[transfers[i]].URL = rawurl
                   /\ \A j \in 1..(i - 1) : tr[transfers[j]].URL # rawurl]
  ELSE 0

\* findByID: the first record with that ID, 0 for ErrTransferNotFound.
findByID(id) ==
  IF \E i \in 1..Len(transfers) : tr[transfers[i]].ID = id
  THEN transfers[CHOOSE i \in 1..Len(transfers) :
                   /\ tr[transfers[i]].ID = id
                   /\ \A j \in 1..(i - 1) : tr[transfers[j]].ID # id]
  ELSE 0

\* remove(id) with the test inverted: only the records of that ID stay.
SkipsIDInverted(o, id) == tr[o].ID = id

\* remove(id): the registry without the records of that ID.
SkipsID(o, id) == tr[o].ID # id

remove(ts, id) == SelectSeq(ts, LAMBDA o : SkipsID(o, id))

\* ListActive: the records of the registry with IsActive, in registry order.
ListActive == SelectSeq(transfers, LAMBDA o : IsActive(o))

\* ListPending: the records of the registry without IsActive.
ListPending == SelectSeq(transfers, LAMBDA o : ~IsActive(o))

(***************************************************************************)
(* Sentinel files.                                                         *)
(***************************************************************************)
\* MarkDownloading / UnmarkDownloading / MarkUploading / UnmarkUploading:
\* no-ops for an empty DownloadDir.
MarkDownloading(marks, dir) == IF dir = NoDir THEN marks ELSE marks \cup {dir}
UnmarkDownloading(marks, dir) == IF dir = NoDir THEN marks ELSE marks \ {dir}
MarkUploading(marks, dir) == IF dir = NoDir THEN marks ELSE marks \cup {dir}
UnmarkUploading(marks, dir) == IF dir = NoDir THEN marks ELSE marks \ {dir}

\* The clean-up forgetting the .uploading files.
IsTempFileDownloadingOnly(ext) == ext = "downloading"

\* ext != "uploading" && ext != "downloading" -> keep the file
IsTempFile(ext) == ext = "uploading" \/ ext = "downloading"

(***************************************************************************)
(* Library listing.                                                        *)
(***************************************************************************)
\* Download.Downloading(): stat of <path>.downloading succeeds.
Downloading(d) == d \in dlmark

\* The less function ls hands to sort.Slice:
\* func(i, j int) bool { return dirs[j].Name() > dirs[i].Name() }
lsLess(a, b) == b > a

\* sort.Slice of the names S (distinct within one directory) under lsLess.
RECURSIVE SortSlice(_)
SortSlice(S) ==
  IF S = {} THEN <<>>
  ELSE LET first == CHOOSE a \in S : \A b \in S : ~lsLess(b, a) IN
       <<first>> \o SortSlice(S \ {first})

\* ls(downloadDir): the directories under the root, sorted.
ls == SortSlice({d \in Dirs : disk[d].exists})

\* ListDownloads: the directories ls returns that are not marked as
\* downloading, in the order of ls.
ListDownloads == SelectSeq(ls, LAMBDA d : ~Downloading(d))

(***************************************************************************)
(* Transcoder: paths and files.  A file of the media directory is its base *)
(* name without extension, its extension, and whether the name carries a   *)
(* leading dot.                                                            *)
(***************************************************************************)
File(name, ext, dot) == [name |-> name, ext |-> ext, dot |-> dot]

\* Source paths handed to Add and Cancel.
Paths == {File("a", "avi", FALSE), File("b", "avi", FALSE)}
NoPath == File("", "", FALSE)

\* filenames(srcname): srcname, "<dir>/.<noext>.mp4", "<dir>/<noext>.mp4".
filenames(srcname) ==
  [src |-> srcname,
   tmp |-> File(srcname.name, "mp4", TRUE),
   dst |-> File(srcname.name, "mp4", FALSE)]

\* Every file the model keeps the size of.
FileNames ==
  UNION {{filenames(p).src, filenames(p).tmp, filenames(p).dst} : p \in Paths}

\* Sizes of the file the encoder writes: below and at srcfi.Size() / 5.
EncSizes == {(SrcSize \div 5) - 1, SrcSize \div 5}

Jobs == 1..MaxSpawn
Callers == 1..NCallers

\* A goroutine slot: not spawned yet.  cmd is the state of its exec.Cmd:
\* "nil" while cmd.Process is nil, "running", "killed" once SIGKILL was
\* sent, "exit0" / "exit1" once the child has exited and has not been
\* waited for, "done" after Wait.
ZeroJob == [pc |-> "none", src |-> NoPath, size |-> 0, cmd |-> "nil"]
\* A goroutine that has returned.
ExitedJob == [ZeroJob EXCEPT !.pc = "exit"]

ZeroCall == [pc |-> "idle", src |-> NoPath]

\* No call made yet.
NoCall == [fn |-> "none", arg |-> <<>>, out |-> "none"]

\* The goroutines of the lock protocol: the scheduler, one caller of each
\* exported function with its own locking pattern, and one worker.
Procs == {"manager", "Add", "Remove", "Downloading", "SetTorrentRatio",
          "transfer"}

\* Downloader.mu and Config.mu.
Locks == {"l.mu", "c.mu"}

\* Every goroutine is about to execute its first instruction and no mutex
\* is held.
LockIdle ==
  /\ lpc = [p \in Procs |-> 1]
  /\ wr = [k \in Locks |-> "none"]
  /\ rd = [k \in Locks |-> {}]

\* No download is shared and no helper was called.
HelperIdle ==
  /\ shared = {}
  /\ sharedDir = FALSE
  /\ last = NoCall

\* NewTranscoder(): an empty running map and queue, no worker, no caller;
\* the source files exist and nothing else does.
NewTranscoder(ncpu) ==
  /\ concurrency = ncpu
  /\ queue = <<>>
  /\ running = [p \in Paths |-> 0]
  /\ job = [w \in Jobs |-> ZeroJob]
  /\ njob = 0
  /\ call = [c \in Callers |-> ZeroCall]
  /\ files = [f \in FileNames |-> IF f \in Paths THEN SrcSize ELSE 0]

(***************************************************************************)
(* Construction.                                                           *)
(***************************************************************************)
Init ==
  /\ phase = "boot"
  /\ slots \in 0..MaxSlots
  /\ ratio = ConfiguredRatio
  /\ transfers = <<>>
  /\ tr = [o \in Objs |-> ZeroTransfer]
  /\ nobj = 0
  /\ pc = [o \in Objs |-> "idle"]
  /\ ctxDone = [o \in Objs |-> FALSE]
  /\ werr = [o \in Objs |-> "nil"]
  /\ fidx = [o \in Objs |-> 0]
  /\ tor = [o \in Objs |-> ZeroTorrent]
  /\ dlmark \in SUBSET Dirs
  /\ upmark \in SUBSET Dirs
  /\ disk = [d \in Dirs |-> NoDirEntry]
  /\ NewTranscoder(MaxCPU)
  /\ HelperIdle
  /\ LockIdle

\* The files NewDownloader removes from a root holding the sentinels `marks`
\* of kind `ext`.
CleanTemp(marks, ext) == IF IsTempFile(ext) THEN {} ELSE marks

\* NewDownloader: defaults, removal of the temp files, then go l.manager().
NewDownloader ==
  /\ phase = "boot"
  /\ slots' = IF slots = 0 THEN defaultTransferSlots ELSE slots
  /\ ratio' = IF ratio = 0 THEN defaultTorrentRatio ELSE ratio
  /\ dlmark' = CleanTemp(dlmark, "downloading")
  /\ upmark' = CleanTemp(upmark, "uploading")
  /\ phase' = "running"
  /\ UNCHANGED <<transfers, tr, nobj, pc, ctxDone, werr, fidx, tor, disk>>
  /\ UNCHANGED <<tvars, hvars, lvars>>

(***************************************************************************)
(* Garbage.  A Transfer record that is out of the registry and whose       *)
(* worker has returned (or was never spawned) is referenced by nothing;    *)
(* its record, locals and torrent state are reset to the zero values.      *)
(***************************************************************************)
Garbage(ts, p) == {o \in Objs : o \notin Range(ts) /\ p[o] \in {"idle", "done"}}

Sweep(f, zero, ts, p) == [o \in Objs |-> IF o \in Garbage(ts, p) THEN zero ELSE f[o]]

(***************************************************************************)
(* Registry operations.                                                    *)
(***************************************************************************)
\* The record taking the default ratio in place of the configured one.
NewTransferDefaultRatio(u) ==
  [ZeroTransfer EXCEPT !.ID = Md5Hex(u), !.URL = u,
                       !.SeedRatio = defaultTorrentRatio]

\* The record Add appends for the parsed URL u.
NewTransfer(u) ==
  [ZeroTransfer EXCEPT !.ID = Md5Hex(u), !.URL = u, !.SeedRatio = ratio]

\* What Add(rawurl) returns: the ID of the returned Transfer and the error.
AddReturn(rawurl) ==
  LET u == Canon(rawurl) IN
  IF u = "error" THEN [id |-> "", err |-> "parse"]
  ELSE IF findByURL(u) # 0 THEN [id |-> tr[findByURL(u)].ID, err |-> "nil"]
  ELSE [id |-> Md5Hex(u), err |-> "nil"]

\* Add(rawurl)
Add(rawurl) ==
  /\ phase = "running"
  /\ LET u == Canon(rawurl) IN
     IF u = "error" \/ findByURL(u) # 0
     THEN UNCHANGED <<transfers, tr, nobj>>
     ELSE /\ nobj < MaxObjs
          /\ nobj' = nobj + 1
          /\ tr' = [tr EXCEPT ![nobj + 1] = NewTransfer(u)]
          /\ transfers' = Append(transfers, nobj + 1)
  /\ UNCHANGED <<phase, slots, ratio, pc, ctxDone, werr, fidx, tor, dlmark,
                 upmark, disk>>
  /\ UNCHANGED <<tvars, hvars, lvars>>

\* Remove: whether the download dir of record o is deleted.
RemovesDir(o) == tr[o].Torrent /\ ~tr[o].Uploading

\* What Remove(id) returns.
RemoveReturn(id) == IF findByID(id) = 0 THEN "ErrTransferNotFound" ELSE "nil"

\* Remove(id)
Remove(id) ==
  /\ phase = "running"
  /\ LET o == findByID(id) IN
     IF o = 0
     THEN UNCHANGED <<transfers, tr, ctxDone, werr, tor, disk, dlmark, upmark>>
     ELSE LET ts == remove(transfers, id) IN
          /\ ctxDone' = Sweep([ctxDone EXCEPT ![o] = IF tr[o].Cancel /\ pc[o] # "done"
                                                      THEN TRUE ELSE @],
                              FALSE, ts, pc)
          /\ tor' = Sweep([tor EXCEPT ![o].dropped = IF tr[o].Torrent THEN TRUE ELSE @],
                          ZeroTorrent, ts, pc)
          /\ disk' = IF RemovesDir(o) /\ tr[o].DownloadDir # NoDir
                     THEN [disk EXCEPT ![tr[o].DownloadDir] = NoDirEntry]
                     ELSE disk
          /\ transfers' = ts
          /\ dlmark' = UnmarkDownloading(dlmark, tr[o].DownloadDir)
          /\ upmark' = UnmarkUploading(upmark, tr[o].DownloadDir)
          /\ tr' = Sweep(tr, ZeroTransfer, ts, pc)
          /\ werr' = Sweep(werr, "nil", ts, pc)
  /\ UNCHANGED <<phase, slots, ratio, nobj, pc, fidx>>
  /\ UNCHANGED <<tvars, hvars, lvars>>

(***************************************************************************)
(* Scheduler.                                                              *)
(***************************************************************************)
\* manager() counting the uploading transfers as well.
CountsActiveUploadingToo(o) == IsActive(o)

\* manager(): a transfer counts against the cap when it is active and not
\* uploading.
CountsActive(o) == IsActive(o) /\ ~tr[o].Uploading

ActiveCount == Cardinality({i \in 1..Len(transfers) : CountsActive(transfers[i])})

\* The start condition off by one.
HasFreeSlotOffByOne(active) == active <= slots

\* manager(): the start condition, with `active` transfers counted so far.
HasFreeSlot(active) == active < slots

\* The second loop starting the newest waiting record only.
AdmittedNewestFirst(ts, i, active) ==
  LET waiting == {j \in i..Len(ts) : ~IsActive(ts[j]) /\ ~IsCompleted(ts[j])} IN
  IF waiting # {} /\ HasFreeSlot(active)
  THEN {ts[CHOOSE j \in waiting : \A k \in waiting : k <= j]}
  ELSE {}

\* The second loop without the test that leaves active transfers alone.
RECURSIVE AdmittedRestarts(_, _, _)
AdmittedRestarts(ts, i, active) ==
  IF i > Len(ts) THEN {}
  ELSE IF IsCompleted(ts[i]) THEN AdmittedRestarts(ts, i + 1, active)
  ELSE IF HasFreeSlot(active)
       THEN {ts[i]} \cup AdmittedRestarts(ts, i + 1, active + 1)
       ELSE AdmittedRestarts(ts, i + 1, active)

\* manager(): the second loop over a snapshot ts of the registry from index
\* i on, with `active` counted so far: the set of records to start.
RECURSIVE Admitted(_, _, _)
Admitted(ts, i, active) ==
  IF i > Len(ts) THEN {}
  ELSE IF IsActive(ts[i]) \/ IsCompleted(ts[i]) THEN Admitted(ts, i + 1, active)
  ELSE IF HasFreeSlot(active)
       THEN {ts[i]} \cup Admitted(ts, i + 1, active + 1)
       ELSE Admitted(ts, i + 1, active)

\* manager() purging only the transfers that completed without error.
PurgedOnlySuccess(o) == ~IsActive(o) /\ IsCompleted(o) /\ tr[o].Error = "nil"

\* manager(): the records the tick takes out of the registry.
Purged(o) == ~IsActive(o) /\ IsCompleted(o)

\* manager(): l.remove(t.ID) for each of them.
PurgedIDs == {tr[transfers[i]].ID : i \in {j \in 1..Len(transfers) : Purged(transfers[j])}}

\* One iteration of manager()'s for loop, under l.mu.
ManagerTick ==
  /\ phase = "running"
  /\ LET start == Admitted(transfers, 1, ActiveCount)
         ts == SelectSeq(transfers, LAMBDA o : tr[o].ID \notin PurgedIDs)
         p == [o \in Objs |-> IF o \in start THEN "prepare" ELSE pc[o]] IN
     /\ transfers' = ts
     /\ tr' = Sweep([o \in Objs |-> IF o \in start
                                    THEN [tr[o] EXCEPT !.Started = TRUE]
                                    ELSE tr[o]],
                    ZeroTransfer, ts, p)
     /\ tor' = Sweep(tor, ZeroTorrent, ts, p)
     /\ pc' = p
  /\ UNCHANGED <<phase, slots, ratio, nobj, ctxDone, werr, fidx, dlmark,
                 upmark, disk>>
  /\ UNCHANGED <<tvars, hvars, lvars>>

(***************************************************************************)
(* Worker: transfer(t).                                                    *)
(***************************************************************************)
\* The worker leaves its transfer function with error e and goes on to the
\* clean-up section of transfer().
Return(o, e) ==
  /\ werr' = [werr EXCEPT ![o] = e]
  /\ pc' = [pc EXCEPT ![o] = "cleanup"]

\* transfer(): context.WithCancel, t.Cancel = &cancel, dispatch on the URL.
Prepare(o) ==
  /\ pc[o] = "prepare"
  /\ tr' = [tr EXCEPT ![o].Cancel = TRUE]
  /\ pc' = [pc EXCEPT ![o] = IF IsFriendURL(tr[o].URL) THEN "friend_list"
                                                         ELSE "torrent_add"]
  /\ UNCHANGED <<phase, slots, ratio, transfers, nobj, ctxDone, werr, fidx,
                 tor, dlmark, upmark, disk>>
  /\ UNCHANGED <<tvars, hvars, lvars>>

\* transfer(): t.Error = err; t.Completed = time.Now()
Cleanup(o) ==
  /\ pc[o] = "cleanup"
  /\ LET p == [pc EXCEPT ![o] = "done"] IN
     /\ tr' = Sweep([tr EXCEPT ![o].Error = werr[o], ![o].Completed = TRUE],
                    ZeroTransfer, transfers, p)
     /\ tor' = Sweep(tor, ZeroTorrent, transfers, p)
     /\ pc' = p
  /\ werr' = [werr EXCEPT ![o] = "nil"]
  /\ ctxDone' = [ctxDone EXCEPT ![o] = FALSE]
  /\ fidx' = [fidx EXCEPT ![o] = 0]
  /\ UNCHANGED <<phase, slots, ratio, transfers, nobj, dlmark, upmark, disk>>
  /\ UNCHANGED <<tvars, hvars, lvars>>

\* The gate with > in place of >=.
availableStorageStrict(size, space) ==
  ~(size > space - ((space * 5) \div 100))

\* availableStorage(size) with l.Config.Space() = space: 5% are reserved.
availableStorage(size, space) == ~(size >= space - ((space * 5) \div 100))

\* Free space the probe may report.
SpaceValues == {TotalLength, 2 * TotalLength}

(***************************************************************************)
(* Worker: transferFriend.                                                 *)
(***************************************************************************)
\* The test of the download id with the lower limit off by one.
ValidDownloadIDOffByOne(n) == ~(n <= 3 \/ n > 200)

\* len(downloadID) < 3 || len(downloadID) > 200 -> error
ValidDownloadID(n) == ~(n < 3 \/ n > 200)

\* len(filepath.Base(path)) of a friend URL: "movieA".
DownloadIDLen(u) == IF u = FriendURL THEN 6 ELSE 0

\* transferFriend: the checks on the file list of nfiles files of total
\* `size`, for a download id of length idlen, in the order of the code;
\* "nil" when the worker goes on to store DownloadDir and mark.
friendChecks(nfiles, idlen, size, space) ==
  IF nfiles = 0 THEN "no files found"
  ELSE IF ~ValidDownloadID(idlen) THEN "missing or invalid download id"
  ELSE IF ~availableStorage(size, space) THEN "ErrInsufficientStorage"
  ELSE "nil"

\* GET of the file list (no context), the checks on it, and the lock section
\* storing DownloadID, DownloadSize and DownloadDir.
FriendList(o) ==
  /\ pc[o] = "friend_list"
  /\ \/ /\ Return(o, "transport")
        /\ UNCHANGED tr
     \/ \E nfiles \in {0, NFiles}, space \in SpaceValues :
          LET e == friendChecks(nfiles, DownloadIDLen(tr[o].URL), TotalLength,
                                space) IN
          IF e = "nil"
          THEN /\ tr' = [tr EXCEPT ![o].DownloadID = DirOf(tr[o].URL),
                                   ![o].DownloadDir = DirOf(tr[o].URL)]
               /\ pc' = [pc EXCEPT ![o] = "friend_mark"]
               /\ UNCHANGED werr
          ELSE /\ Return(o, e)
               /\ UNCHANGED tr
  /\ UNCHANGED <<phase, slots, ratio, transfers, nobj, ctxDone, fidx, tor,
                 dlmark, upmark, disk>>
  /\ UNCHANGED <<tvars, hvars, lvars>>

\* t.MarkDownloading() before the file loop.
FriendMark(o) ==
  /\ pc[o] = "friend_mark"
  /\ dlmark' = MarkDownloading(dlmark, tr[o].DownloadDir)
  /\ fidx' = [fidx EXCEPT ![o] = 1]
  /\ pc' = [pc EXCEPT ![o] = "friend_get"]
  /\ UNCHANGED <<phase, slots, ratio, transfers, tr, nobj, ctxDone, werr, tor,
                 upmark, disk>>
  /\ UNCHANGED <<tvars, hvars, lvars>>

\* The directory d after os.MkdirAll.
MkdirAll(d) == [disk EXCEPT ![d].exists = TRUE]

\* One file of the loop: MkdirAll, GET(ctx, endpoint), os.Create.
FriendGet(o) ==
  /\ pc[o] = "friend_get"
  /\ LET d == tr[o].DownloadDir IN
     \/ /\ disk' = MkdirAll(d)
        /\ Return(o, "transport")
     \/ /\ ~ctxDone[o]
        /\ disk' = [MkdirAll(d) EXCEPT ![d].files[fidx[o]] = "part"]
        /\ pc' = [pc EXCEPT ![o] = "friend_copy"]
        /\ UNCHANGED werr
  /\ UNCHANGED <<phase, slots, ratio, transfers, tr, nobj, ctxDone, fidx, tor,
                 dlmark, upmark>>
  /\ UNCHANGED <<tvars, hvars, lvars>>

\* The copy removing the file it could not write whole.
FriendCopyRemovesPartial(o) ==
  /\ pc[o] = "friend_copy"
  /\ LET d == tr[o].DownloadDir IN
     \/ /\ Return(o, "transport")
        /\ disk' = [disk EXCEPT ![d].files[fidx[o]] = "none"]
        /\ UNCHANGED fidx
     \/ /\ disk' = IF disk[d].exists /\ disk[d].files[fidx[o]] # "none"
                   THEN [disk EXCEPT ![d].files[fidx[o]] = "full"]
                   ELSE disk
        /\ IF fidx[o] < NFiles
           THEN /\ fidx' = [fidx EXCEPT ![o] = @ + 1]
                /\ pc' = [pc EXCEPT ![o] = "friend_get"]
           ELSE /\ pc' = [pc EXCEPT ![o] = "friend_post"]
                /\ UNCHANGED fidx
        /\ UNCHANGED werr
  /\ UNCHANGED <<phase, slots, ratio, transfers, tr, nobj, ctxDone, tor,
                 dlmark, upmark>>
  /\ UNCHANGED <<tvars, hvars, lvars>>

\* io.Copy(f, res.Body) and f.Close(): the body arrives whole, or the copy
\* fails (transport error, cancelled context) and the partial file stays.
FriendCopy(o) ==
  /\ pc[o] = "friend_copy"
  /\ LET d == tr[o].DownloadDir IN
     \/ /\ Return(o, "transport")
        /\ UNCHANGED <<disk, fidx>>
     \/ /\ disk' = IF disk[d].exists /\ disk[d].files[fidx[o]] # "none"
                   THEN [disk EXCEPT ![d].files[fidx[o]] = "full"]
                   ELSE disk
        /\ IF fidx[o] < NFiles
           THEN /\ fidx' = [fidx EXCEPT ![o] = @ + 1]
                /\ pc' = [pc EXCEPT ![o] = "friend_get"]
           ELSE /\ pc' = [pc EXCEPT ![o] = "friend_post"]
                /\ UNCHANGED fidx
        /\ UNCHANGED werr
  /\ UNCHANGED <<phase, slots, ratio, transfers, tr, nobj, ctxDone, tor,
                 dlmark, upmark>>
  /\ UNCHANGED <<tvars, hvars, lvars>>

\* PostProcess: t.Files() walks the download dir and fails when it is gone;
\* thumbnail failures are warnings.
PostProcessOK(o) == tr[o].DownloadDir # NoDir /\ disk[tr[o].DownloadDir].exists

\* PostProcess, then return t.UnmarkDownloading().
FriendPost(o) ==
  /\ pc[o] = "friend_post"
  /\ IF PostProcessOK(o)
     THEN /\ dlmark' = UnmarkDownloading(dlmark, tr[o].DownloadDir)
          /\ Return(o, "nil")
     ELSE /\ Return(o, "walk")
          /\ UNCHANGED dlmark
  /\ UNCHANGED <<phase, slots, ratio, transfers, tr, nobj, ctxDone, fidx, tor,
                 upmark, disk>>
  /\ UNCHANGED <<tvars, hvars, lvars>>

(***************************************************************************)
(* Torrent client.  The client opens the storage of a torrent as soon as   *)
(* its info is known, which calls the path maker NewDownloader installed;  *)
(* it writes pieces after DownloadAll and until Drop.                      *)
(***************************************************************************)
\* The custom path maker: marks the directory it returns as downloading.
PathMaker(marks, u) == MarkDownloading(marks, DirOf(u))

\* The info of a magnet torrent arrives from the swarm.
TorrentGotInfo(o) ==
  /\ tr[o].Torrent
  /\ ~tor[o].info
  /\ ~tor[o].dropped
  /\ tor' = [tor EXCEPT ![o].info = TRUE]
  /\ dlmark' = PathMaker(dlmark, tr[o].URL)
  /\ UNCHANGED <<phase, slots, ratio, transfers, tr, nobj, pc, ctxDone, werr,
                 fidx, upmark, disk>>
  /\ UNCHANGED <<tvars, hvars, lvars>>

\* The client writes the next missing piece into the torrent's directory.
TorrentData(o) ==
  /\ tr[o].Torrent
  /\ tor[o].all
  /\ ~tor[o].dropped
  /\ tor[o].missing > 0
  /\ LET d == DirOf(tr[o].URL)
         i == TotalLength - tor[o].missing + 1 IN
     disk' = [MkdirAll(d) EXCEPT ![d].files[i] = "full"]
  /\ tor' = [tor EXCEPT ![o].missing = @ - 1]
  /\ UNCHANGED <<phase, slots, ratio, transfers, tr, nobj, pc, ctxDone, werr,
                 fidx, dlmark, upmark>>
  /\ UNCHANGED <<tvars, hvars, lvars>>

\* The client uploads one unit of data to a peer.
TorrentUpload(o) ==
  /\ tr[o].Torrent
  /\ ~tor[o].dropped
  /\ tor[o].missing < TotalLength
  /\ tor[o].written < MaxUp
  /\ tor' = [tor EXCEPT ![o].written = @ + 1]
  /\ UNCHANGED <<phase, slots, ratio, transfers, tr, nobj, pc, ctxDone, werr,
                 fidx, dlmark, upmark, disk>>
  /\ UNCHANGED <<tvars, hvars, lvars>>

(***************************************************************************)
(* Worker: transferTorrent.                                                *)
(***************************************************************************)
\* The scheme dispatch.  magnet: AddMagnet, t.Torrent = tor.  http(s):
\* GET(ctx), metainfo.Load, AddTorrent, t.Torrent = tor, return err.
TorrentAdd(o) ==
  /\ pc[o] = "torrent_add"
  /\ IF Scheme(tr[o].URL) = "magnet"
     THEN /\ tr' = [tr EXCEPT ![o].Torrent = TRUE]
          /\ tor' = [tor EXCEPT ![o] = ZeroTorrent]
          /\ pc' = [pc EXCEPT ![o] = "torrent_info"]
          /\ UNCHANGED <<werr, dlmark>>
     ELSE \/ /\ Return(o, "transport")
             /\ UNCHANGED <<tr, tor, dlmark>>
          \/ /\ ~ctxDone[o]
             /\ tr' = [tr EXCEPT ![o].Torrent = TRUE]
             /\ tor' = [tor EXCEPT ![o] = [ZeroTorrent EXCEPT !.info = TRUE]]
             /\ dlmark' = PathMaker(dlmark, tr[o].URL)
             /\ Return(o, "nil")
  /\ UNCHANGED <<phase, slots, ratio, transfers, nobj, ctxDone, fidx, upmark,
                 disk>>
  /\ UNCHANGED <<tvars, hvars, lvars>>

\* <-t.Torrent.GotInfo(), the disk-space gate, t.DownloadDir = dldir.
TorrentGate(o) ==
  /\ pc[o] = "torrent_info"
  /\ tor[o].info
  /\ \E space \in SpaceValues :
       IF availableStorage(TotalLength, space)
       THEN /\ tr' = [tr EXCEPT ![o].DownloadDir = DirOf(tr[o].URL)]
            /\ pc' = [pc EXCEPT ![o] = "torrent_mark"]
            /\ UNCHANGED werr
       ELSE /\ Return(o, "ErrInsufficientStorage")
            /\ UNCHANGED tr
  /\ UNCHANGED <<phase, slots, ratio, transfers, nobj, ctxDone, fidx, tor,
                 dlmark, upmark, disk>>
  /\ UNCHANGED <<tvars, hvars, lvars>>

\* t.MarkDownloading(); t.Torrent.DownloadAll()
TorrentMark(o) ==
  /\ pc[o] = "torrent_mark"
  /\ dlmark' = MarkDownloading(dlmark, tr[o].DownloadDir)
  /\ tor' = [tor EXCEPT ![o].all = TRUE]
  /\ pc' = [pc EXCEPT ![o] = "loop"]
  /\ UNCHANGED <<phase, slots, ratio, transfers, tr, nobj, ctxDone, werr, fidx,
                 upmark, disk>>
  /\ UNCHANGED <<tvars, hvars, lvars>>

\* case <-ctx.Done(): unmark both sentinels and return.
TorrentCancel(o) ==
  /\ pc[o] = "loop"
  /\ ctxDone[o]
  /\ dlmark' = UnmarkDownloading(dlmark, tr[o].DownloadDir)
  /\ upmark' = UnmarkUploading(upmark, tr[o].DownloadDir)
  /\ Return(o, "nil")
  /\ UNCHANGED <<phase, slots, ratio, transfers, tr, nobj, ctxDone, fidx, tor,
                 disk>>
  /\ UNCHANGED <<tvars, hvars, lvars>>

\* The comparison with > in place of >=.
RatioReachedStrict(bw, br, target) ==
  IF bw > 0 /\ br > 0 THEN bw * 2 > target * br ELSE 0 > target

\* ratio >= target, with ratio = bw / br when both are positive, else 0.
RatioReached(bw, br, target) ==
  IF bw > 0 /\ br > 0 THEN bw * 2 >= target * br ELSE 0 >= target

\* case <-ticker.C: while uploading.
PollUploading(o) ==
  /\ tr[o].Uploading
  /\ tr[o].SeedRatio > 0
  /\ RatioReached(tor[o].written, TotalLength, tr[o].SeedRatio)
  /\ tor' = [tor EXCEPT ![o].dropped = TRUE]
  /\ upmark' = UnmarkUploading(upmark, tr[o].DownloadDir)
  /\ Return(o, "nil")
  /\ UNCHANGED dlmark

\* The download branch going on to seed whatever the target is.
PollDownloadingAlwaysSeeds(o) ==
  /\ ~tr[o].Uploading
  /\ tor[o].missing = 0
  /\ IF ~PostProcessOK(o)
     THEN /\ Return(o, "walk")
          /\ UNCHANGED <<tor, dlmark>>
     ELSE /\ dlmark' = UnmarkDownloading(dlmark, tr[o].DownloadDir)
          /\ pc' = [pc EXCEPT ![o] = "set_uploading"]
          /\ UNCHANGED <<tor, werr>>
  /\ UNCHANGED upmark

\* case <-ticker.C: while downloading, once nothing is missing.
PollDownloading(o) ==
  /\ ~tr[o].Uploading
  /\ tor[o].missing = 0
  /\ IF ~PostProcessOK(o)
     THEN /\ Return(o, "walk")
          /\ UNCHANGED <<tor, dlmark>>
     ELSE /\ dlmark' = UnmarkDownloading(dlmark, tr[o].DownloadDir)
          /\ IF tr[o].SeedRatio = 0
             THEN /\ tor' = [tor EXCEPT ![o].dropped = TRUE]
                  /\ Return(o, "nil")
             ELSE /\ pc' = [pc EXCEPT ![o] = "set_uploading"]
                  /\ UNCHANGED <<tor, werr>>
  /\ UNCHANGED upmark

\* case <-ticker.C
TorrentPoll(o) ==
  /\ pc[o] = "loop"
  /\ PollUploading(o) \/ PollDownloading(o)
  /\ UNCHANGED <<phase, slots, ratio, transfers, tr, nobj, ctxDone, fidx, disk>>
  /\ UNCHANGED <<tvars, hvars, lvars>>

\* t.Uploading = true, under l.mu
SetUploading(o) ==
  /\ pc[o] = "set_uploading"
  /\ tr' = [tr EXCEPT ![o].Uploading = TRUE]
  /\ pc' = [pc EXCEPT ![o] = "mark_uploading"]
  /\ UNCHANGED <<phase, slots, ratio, transfers, nobj, ctxDone, werr, fidx,
                 tor, dlmark, upmark, disk>>
  /\ UNCHANGED <<tvars, hvars, lvars>>

\* t.MarkUploading()
TorrentMarkUploading(o) ==
  /\ pc[o] = "mark_uploading"
  /\ upmark' = MarkUploading(upmark, tr[o].DownloadDir)
  /\ pc' = [pc EXCEPT ![o] = "loop"]
  /\ UNCHANGED <<phase, slots, ratio, transfers, tr, nobj, ctxDone, werr, fidx,
                 tor, dlmark, disk>>
  /\ UNCHANGED <<tvars, hvars, lvars>>

(***************************************************************************)
(* Configuration.                                                          *)
(***************************************************************************)
\* Config.SetTorrentRatio(ratio)
SetTorrentRatio(r) ==
  /\ phase = "running"
  /\ ratio' = r
  /\ UNCHANGED <<phase, slots, transfers, tr, nobj, pc, ctxDone, werr, fidx,
                 tor, dlmark, upmark, disk>>
  /\ UNCHANGED <<tvars, hvars, lvars>>

\* Config.SetTransferSlots(n)
SetTransferSlots(n) ==
  /\ phase = "running"
  /\ slots' = n
  /\ UNCHANGED <<phase, ratio, transfers, tr, nobj, pc, ctxDone, werr, fidx,
                 tor, dlmark, upmark, disk>>
  /\ UNCHANGED <<tvars, hvars, lvars>>

(***************************************************************************)
(* Specifications.                                                         *)
(***************************************************************************)
Worker(o) ==
  \/ Prepare(o)
  \/ FriendList(o)
  \/ FriendMark(o)
  \/ FriendGet(o)
  \/ FriendCopy(o)
  \/ FriendPost(o)
  \/ TorrentAdd(o)
  \/ TorrentGate(o)
  \/ TorrentMark(o)
  \/ TorrentCancel(o)
  \/ TorrentPoll(o)
  \/ SetUploading(o)
  \/ TorrentMarkUploading(o)
  \/ Cleanup(o)

Client(o) ==
  \/ TorrentGotInfo(o)
  \/ TorrentData(o)
  \/ TorrentUpload(o)

\* The engine with a slot limit that stays as configured at construction.
Next ==
  \/ NewDownloader
  \/ \E rawurl \in RawURLs : Add(rawurl)
  \/ \E id \in IDs \cup {"ffff"} : Remove(id)
  \/ ManagerTick
  \/ \E o \in Objs : Worker(o)
  \/ \E o \in Objs : Client(o)
  \/ \E r \in RatioValues : SetTorrentRatio(r)

Spec == Init /\ [][Next]_vars

\* The values SetTransferSlots is called with.
SlotValues == (1..MaxSlots) \cup {defaultTransferSlots}

\* The engine with both settings changed while it runs.
ConfigNext ==
  \/ Next
  \/ \E n \in SlotValues : SetTransferSlots(n)

ConfigSpec == Init /\ [][ConfigNext]_vars

\* The scheduler loop never stops: a tick that has something to do is taken.
FairSpec == Spec /\ WF_vars(ManagerTick)

(***************************************************************************)
(* Transcoder.  Every section under t.Lock / t.RLock is one action; the    *)
(* worker's file-system and process calls between them are one action each.*)
(***************************************************************************)
\* The transfer engine is not constructed.
DownloaderIdle ==
  /\ phase = "boot"
  /\ slots = 0
  /\ ratio = 0
  /\ transfers = <<>>
  /\ tr = [o \in Objs |-> ZeroTransfer]
  /\ nobj = 0
  /\ pc = [o \in Objs |-> "idle"]
  /\ ctxDone = [o \in Objs |-> FALSE]
  /\ werr = [o \in Objs |-> "nil"]
  /\ fidx = [o \in Objs |-> 0]
  /\ tor = [o \in Objs |-> ZeroTorrent]
  /\ dlmark = {}
  /\ upmark = {}
  /\ disk = [d \in Dirs |-> NoDirEntry]

TranscoderInit ==
  /\ DownloaderIdle
  /\ HelperIdle
  /\ LockIdle
  /\ \E ncpu \in 1..MaxCPU : NewTranscoder(ncpu)

\* queued(srcname)
queued(srcname) == \E i \in 1..Len(queue) : queue[i] = srcname

\* dequeue(srcname): the queue without srcname.
dequeue(srcname) == SelectSeq(queue, LAMBDA j : j # srcname)

\* len(t.running)
RunningCount == Cardinality({p \in DOMAIN running : running[p] # 0})

\* manager(): the admission test.
HasFreeWorker == Len(queue) > 0 /\ RunningCount < concurrency

\* manager() popping the newest entry of the queue instead of the head.
TranscoderManagerLIFO ==
  /\ HasFreeWorker
  /\ njob < MaxSpawn
  /\ queue' = SubSeq(queue, 1, Len(queue) - 1)
  /\ njob' = njob + 1
  /\ job' = [job EXCEPT ![njob + 1] = [ZeroJob EXCEPT !.pc = "stat",
                                                      !.src = queue[Len(queue)]]]
  /\ UNCHANGED <<concurrency, running, call, files>>
  /\ UNCHANGED <<dvars, hvars, lvars>>

\* One iteration of manager()'s loop that admits: pop the head of the queue
\* and go t.transcode(srcname).
TranscoderManager ==
  /\ HasFreeWorker
  /\ njob < MaxSpawn
  /\ queue' = Tail(queue)
  /\ njob' = njob + 1
  /\ job' = [job EXCEPT ![njob + 1] = [ZeroJob EXCEPT !.pc = "stat",
                                                      !.src = Head(queue)]]
  /\ UNCHANGED <<concurrency, running, call, files>>
  /\ UNCHANGED <<dvars, hvars, lvars>>

\* Add(srcname): os.Stat, then the first read section: return if queued.
TranscoderAddStat(c, srcname) ==
  /\ call[c].pc = "idle"
  /\ IF files[srcname] = 0 \/ queued(srcname)
     THEN UNCHANGED call
     ELSE call' = [call EXCEPT ![c] = [pc |-> "running", src |-> srcname]]
  /\ UNCHANGED <<concurrency, queue, running, job, njob, files>>
  /\ UNCHANGED <<dvars, hvars, lvars>>

\* Add(srcname): the second read section: return if already running.
TranscoderAddRunning(c) ==
  /\ call[c].pc = "running"
  /\ call' = [call EXCEPT ![c] = IF running[call[c].src] # 0
                                 THEN ZeroCall
                                 ELSE [@ EXCEPT !.pc = "append"]]
  /\ UNCHANGED <<concurrency, queue, running, job, njob, files>>
  /\ UNCHANGED <<dvars, hvars, lvars>>

\* Add(srcname): the write section: t.queue = append(t.queue, srcname).
TranscoderAddAppend(c) ==
  /\ call[c].pc = "append"
  /\ Len(queue) < MaxQueue
  /\ queue' = Append(queue, call[c].src)
  /\ call' = [call EXCEPT ![c] = ZeroCall]
  /\ UNCHANGED <<concurrency, running, job, njob, files>>
  /\ UNCHANGED <<dvars, hvars, lvars>>

\* What Add(srcname) returns when it returns from its first section.
TranscoderAddReturn(srcname) ==
  IF files[srcname] = 0 THEN "no such file" ELSE "nil"

\* What Cancel(srcname) returns.
CancelReturn(srcname) ==
  IF queued(srcname) THEN "nil"
  ELSE IF running[srcname] = 0 THEN "no transcoding job found"
  ELSE IF job[running[srcname]].cmd = "done" THEN "os: process already finished"
  ELSE "nil"

\* Cancel(srcname), under t.Lock: dequeue, or Kill when cmd.Process is set.
TranscoderCancel(srcname) ==
  /\ IF queued(srcname)
     THEN /\ queue' = dequeue(srcname)
          /\ UNCHANGED job
     ELSE /\ UNCHANGED queue
          /\ IF running[srcname] # 0 /\ job[running[srcname]].cmd = "running"
             THEN job' = [job EXCEPT ![running[srcname]].cmd = "killed"]
             ELSE UNCHANGED job
  /\ UNCHANGED <<concurrency, running, njob, call, files>>
  /\ UNCHANGED <<dvars, hvars, lvars>>

\* Active(srcname): queued, or running with a child that answers signal 0.
Active(srcname) ==
  \/ queued(srcname)
  \/ /\ running[srcname] # 0
     /\ job[running[srcname]].cmd \in {"running", "killed", "exit0", "exit1"}

\* Busy()
TranscoderBusy == Len(queue) > 0 \/ RunningCount > 0

\* transcode(): os.Stat(srcname), exec.LookPath("ffmpeg"), exec.Command.
\* A missing source or encoder returns before the job is registered.
transcodeStat(w) ==
  /\ job[w].pc = "stat"
  /\ \/ job' = [job EXCEPT ![w] = ExitedJob]
     \/ /\ files[job[w].src] # 0
        /\ job' = [job EXCEPT ![w].size = files[job[w].src],
                              ![w].pc = "register"]
  /\ UNCHANGED <<concurrency, queue, running, njob, call, files>>
  /\ UNCHANGED <<dvars, hvars, lvars>>

\* transcode(): t.running[srcname] = cmd, under t.Lock.
transcodeRegister(w) ==
  /\ job[w].pc = "register"
  /\ running' = [running EXCEPT ![job[w].src] = w]
  /\ job' = [job EXCEPT ![w].pc = "start"]
  /\ UNCHANGED <<concurrency, queue, njob, call, files>>
  /\ UNCHANGED <<dvars, hvars, lvars>>

\* cmd.CombinedOutput(): Start sets cmd.Process, or fails.
transcodeStart(w) ==
  /\ job[w].pc = "start"
  /\ \/ job' = [job EXCEPT ![w].pc = "defer"]
     \/ job' = [job EXCEPT ![w].cmd = "running", ![w].pc = "wait"]
  /\ UNCHANGED <<concurrency, queue, running, njob, call, files>>
  /\ UNCHANGED <<dvars, hvars, lvars>>

\* The encoder child exits: with status 0 and an output of some size, or
\* with a failure (always so once killed) and maybe a partial output.
EncoderExit(w) ==
  /\ job[w].pc = "wait"
  /\ job[w].cmd \in {"running", "killed"}
  /\ LET tmp == filenames(job[w].src).tmp IN
     \/ /\ job[w].cmd = "running"
        /\ \E sz \in EncSizes : files' = [files EXCEPT ![tmp] = sz]
        /\ job' = [job EXCEPT ![w].cmd = "exit0"]
     \/ /\ \E sz \in {files[tmp], (SrcSize \div 5) - 1} :
             files' = [files EXCEPT ![tmp] = sz]
        /\ job' = [job EXCEPT ![w].cmd = "exit1"]
  /\ UNCHANGED <<concurrency, queue, running, njob, call>>
  /\ UNCHANGED <<dvars, hvars, lvars>>

\* cmd.CombinedOutput(): Wait returns; err != nil -> return.
transcodeWait(w) ==
  /\ job[w].pc = "wait"
  /\ job[w].cmd \in {"exit0", "exit1"}
  /\ job' = [job EXCEPT ![w].cmd = "done",
                        ![w].pc = IF job[w].cmd = "exit0" THEN "rename"
                                                          ELSE "defer"]
  /\ UNCHANGED <<concurrency, queue, running, njob, call, files>>
  /\ UNCHANGED <<dvars, hvars, lvars>>

\* os.Rename(tmpname, dstname)
transcodeRename(w) ==
  /\ job[w].pc = "rename"
  /\ LET n == filenames(job[w].src) IN
     \/ /\ job' = [job EXCEPT ![w].pc = "defer"]
        /\ UNCHANGED files
     \/ /\ files[n.tmp] # 0
        /\ files' = [files EXCEPT ![n.dst] = files[n.tmp], ![n.tmp] = 0]
        /\ job' = [job EXCEPT ![w].pc = "check"]
  /\ UNCHANGED <<concurrency, queue, running, njob, call>>
  /\ UNCHANGED <<dvars, hvars, lvars>>

\* minsize := srcfi.Size() / 5; os.Stat(dstname); too small -> os.Remove(dstname).
transcodeCheck(w) ==
  /\ job[w].pc = "check"
  /\ LET n == filenames(job[w].src)
         minsize == job[w].size \div 5 IN
     IF files[n.dst] = 0
     THEN /\ job' = [job EXCEPT ![w].pc = "defer"]
          /\ UNCHANGED files
     ELSE IF files[n.dst] < minsize
     THEN /\ files' = [files EXCEPT ![n.dst] = 0]
          /\ job' = [job EXCEPT ![w].pc = "defer"]
     ELSE /\ job' = [job EXCEPT ![w].pc = "rmsrc"]
          /\ UNCHANGED files
  /\ UNCHANGED <<concurrency, queue, running, njob, call>>
  /\ UNCHANGED <<dvars, hvars, lvars>>

\* The thumbnail rename (which may fail and return), then os.Remove(srcname).
transcodeRemoveSource(w) ==
  /\ job[w].pc = "rmsrc"
  /\ \/ UNCHANGED files
     \/ files' = [files EXCEPT ![job[w].src] = 0]
  /\ job' = [job EXCEPT ![w].pc = "defer"]
  /\ UNCHANGED <<concurrency, queue, running, njob, call>>
  /\ UNCHANGED <<dvars, hvars, lvars>>

\* The deferred function: delete(t.running, srcname), under t.Lock.
transcodeDefer(w) ==
  /\ job[w].pc = "defer"
  /\ running' = [running EXCEPT ![job[w].src] = 0]
  /\ job' = [job EXCEPT ![w].pc = "rmtmp"]
  /\ UNCHANGED <<concurrency, queue, njob, call, files>>
  /\ UNCHANGED <<dvars, hvars, lvars>>

\* The deferred function: os.Remove(tmpname); the goroutine returns.
transcodeRemoveTmp(w) ==
  /\ job[w].pc = "rmtmp"
  /\ files' = [files EXCEPT ![filenames(job[w].src).tmp] = 0]
  /\ job' = [job EXCEPT ![w] = ExitedJob]
  /\ UNCHANGED <<concurrency, queue, running, njob, call>>
  /\ UNCHANGED <<dvars, hvars, lvars>>

transcode(w) ==
  \/ transcodeStat(w)
  \/ transcodeRegister(w)
  \/ transcodeStart(w)
  \/ transcodeWait(w)
  \/ transcodeRename(w)
  \/ transcodeCheck(w)
  \/ transcodeRemoveSource(w)
  \/ transcodeDefer(w)
  \/ transcodeRemoveTmp(w)

TranscoderNext ==
  \/ \E c \in Callers, srcname \in Paths : TranscoderAddStat(c, srcname)
  \/ \E c \in Callers : TranscoderAddRunning(c)
  \/ \E c \in Callers : TranscoderAddAppend(c)
  \/ \E srcname \in Paths : TranscoderCancel(srcname)
  \/ TranscoderManager
  \/ \E w \in Jobs : transcode(w)
  \/ \E w \in Jobs : EncoderExit(w)

TranscoderSpec == TranscoderInit /\ [][TranscoderNext]_vars

\* A library in which every destination exists before any job: a.avi
\* beside an a.mp4, which is a source as well (its destination is itself).
OverwritePaths == {File("a", "avi", FALSE), File("a", "mp4", FALSE)}

OverwriteInit ==
  /\ DownloaderIdle
  /\ HelperIdle
  /\ LockIdle
  /\ concurrency \in 1..MaxCPU
  /\ queue = <<>>
  /\ running = [p \in OverwritePaths |-> 0]
  /\ job = [w \in Jobs |-> ZeroJob]
  /\ njob = 0
  /\ call = [c \in Callers |-> ZeroCall]
  /\ files = [f \in UNION {{filenames(p).src, filenames(p).tmp,
                            filenames(p).dst} : p \in OverwritePaths}
                |-> IF f \in OverwritePaths THEN SrcSize ELSE 0]

OverwriteNext ==
  \/ \E c \in Callers, srcname \in OverwritePaths : TranscoderAddStat(c, srcname)
  \/ \E c \in Callers : TranscoderAddRunning(c)
  \/ \E c \in Callers : TranscoderAddAppend(c)
  \/ \E srcname \in OverwritePaths : TranscoderCancel(srcname)
  \/ TranscoderManager
  \/ \E w \in Jobs : transcode(w)
  \/ \E w \in Jobs : EncoderExit(w)

OverwriteSpec == OverwriteInit /\ [][OverwriteNext]_vars

(***************************************************************************)
(* Library helpers of package main (share flags, ls) and calls of the pure *)
(* functions of the engine on inputs of their whole range.                 *)
(***************************************************************************)
HelperInit ==
  /\ DownloaderIdle
  /\ NewTranscoder(MaxCPU)
  /\ HelperIdle
  /\ LockIdle

\* Download.Shared(): stat of <root>/.shared/<id> succeeds.
Shared(id) == id \in shared

\* Unshare without the Shared() test: os.Remove of a missing file fails.
UnshareNoCheck(id) ==
  /\ \/ /\ Shared(id)
        /\ shared' = shared \ {id}
        /\ last' = [fn |-> "Unshare", arg |-> <<id>>, out |-> "nil"]
     \/ /\ ~Shared(id)
        /\ UNCHANGED shared
        /\ last' = [fn |-> "Unshare", arg |-> <<id>>, out |-> "ENOENT"]
  /\ UNCHANGED sharedDir
  /\ UNCHANGED <<dvars, tvars, lvars>>

\* Download.Share(): nil when shared already; else MkdirAll of .shared and
\* os.Create of the marker, either of which may fail.
Share(id) ==
  /\ IF Shared(id)
     THEN /\ UNCHANGED <<shared, sharedDir>>
          /\ last' = [fn |-> "Share", arg |-> <<id>>, out |-> "nil"]
     ELSE \/ /\ UNCHANGED <<shared, sharedDir>>
             /\ last' = [fn |-> "Share", arg |-> <<id>>, out |-> "EIO"]
          \/ /\ sharedDir' = TRUE
             /\ UNCHANGED shared
             /\ last' = [fn |-> "Share", arg |-> <<id>>, out |-> "EIO"]
          \/ /\ sharedDir' = TRUE
             /\ shared' = shared \cup {id}
             /\ last' = [fn |-> "Share", arg |-> <<id>>, out |-> "nil"]
  /\ UNCHANGED <<dvars, tvars, lvars>>

\* Download.Unshare(): nil when not shared; else os.Remove of the marker,
\* which may fail.
Unshare(id) ==
  /\ IF ~Shared(id)
     THEN /\ UNCHANGED shared
          /\ last' = [fn |-> "Unshare", arg |-> <<id>>, out |-> "nil"]
     ELSE \/ /\ UNCHANGED shared
             /\ last' = [fn |-> "Unshare", arg |-> <<id>>, out |-> "EIO"]
          \/ /\ shared' = shared \ {id}
             /\ last' = [fn |-> "Unshare", arg |-> <<id>>, out |-> "nil"]
  /\ UNCHANGED sharedDir
  /\ UNCHANGED <<dvars, tvars, lvars>>

\* ls(path) of a directory holding the sub-directories `names`.
LsCall(names) ==
  /\ last' = [fn |-> "ls", arg |-> <<names>>, out |-> SortSlice(names)]
  /\ UNCHANGED <<shared, sharedDir>>
  /\ UNCHANGED <<dvars, tvars, lvars>>

\* availableStorage(size) with Space() = space.
GateCall(size, space) ==
  /\ last' = [fn |-> "availableStorage", arg |-> <<size, space>>,
              out |-> availableStorage(size, space)]
  /\ UNCHANGED <<shared, sharedDir>>
  /\ UNCHANGED <<dvars, tvars, lvars>>

\* Lengths of download ids around the two limits.
IDLens == {1, 2, 3, 4, 199, 200, 201}

\* transferFriend up to MarkDownloading: the error it returns with, and
\* whether it went on to store DownloadDir and create the sentinel.
FriendChecksCall(nfiles, idlen, space) ==
  /\ LET e == friendChecks(nfiles, idlen, nfiles, space) IN
     last' = [fn |-> "transferFriend", arg |-> <<nfiles, idlen, space>>,
              out |-> [err |-> e, marked |-> e = "nil"]]
  /\ UNCHANGED <<shared, sharedDir>>
  /\ UNCHANGED <<dvars, tvars, lvars>>

HelperNext ==
  \/ \E id \in Dirs : Share(id)
  \/ \E id \in Dirs : Unshare(id)
  \/ \E names \in SUBSET (1..MaxNames) : LsCall(names)
  \/ \E size \in 0..MaxGate, space \in 0..MaxGate : GateCall(size, space)
  \/ \E nfiles \in 0..NFiles, idlen \in IDLens, space \in SpaceValues :
       FriendChecksCall(nfiles, idlen, space)

HelperSpec == HelperInit /\ [][HelperNext]_vars

(***************************************************************************)
(* Lock protocol of the transfer engine.  Each goroutine runs the sequence *)
(* of mutex calls of its function, with the network and file-system calls  *)
(* made between them; pure computation and memory accesses are left out.   *)
(* A mutex is granted as sync.RWMutex grants it: for writing when nobody   *)
(* holds it, for reading when nobody holds it for writing.                 *)
(***************************************************************************)
Instr(op, arg) == [op |-> op, arg |-> arg]

\* manager(): l.Lock, GetTransferSlots in the second loop, l.Unlock, Sleep.
managerProgram ==
  <<Instr("Lock", "l.mu"), Instr("RLock", "c.mu"), Instr("RUnlock", "c.mu"),
    Instr("Unlock", "l.mu"), Instr("run", "time.Sleep")>>

\* Add(): l.Lock, GetTorrentRatio for the new record, deferred l.Unlock.
AddProgram ==
  <<Instr("Lock", "l.mu"), Instr("RLock", "c.mu"), Instr("RUnlock", "c.mu"),
    Instr("Unlock", "l.mu")>>

\* Remove(): l.Lock, Drop, Stat and RemoveAll, the two unmarks, deferred
\* l.Unlock.
RemoveProgram ==
  <<Instr("Lock", "l.mu"), Instr("io", "Torrent.Drop"),
    Instr("io", "os.RemoveAll"), Instr("io", "UnmarkDownloading"),
    Instr("Unlock", "l.mu")>>

\* Downloading(name): l.RLock, os.Stat, deferred l.RUnlock.
DownloadingProgram ==
  <<Instr("RLock", "l.mu"), Instr("io", "os.Stat"), Instr("RUnlock", "l.mu")>>

\* A setter taking the registry lock inside the config lock.
SetTorrentRatioTakesRegistry ==
  <<Instr("Lock", "c.mu"), Instr("RLock", "l.mu"), Instr("RUnlock", "l.mu"),
    Instr("Unlock", "c.mu")>>

\* Config.SetTorrentRatio(): c.Lock, deferred c.Unlock.
SetTorrentRatioProgram ==
  <<Instr("Lock", "c.mu"), Instr("Unlock", "c.mu")>>

\* transfer() and transferTorrent() of a magnet link, section by section.
transferProgram ==
  <<Instr("Lock", "l.mu"), Instr("Unlock", "l.mu"),
    Instr("RLock", "l.mu"), Instr("RUnlock", "l.mu"),
    Instr("Lock", "l.mu"), Instr("io", "AddMagnet"), Instr("Unlock", "l.mu"),
    Instr("io", "GotInfo"),
    Instr("RLock", "c.mu"), Instr("RUnlock", "c.mu"),
    Instr("Lock", "l.mu"), Instr("Unlock", "l.mu"),
    Instr("io", "MarkDownloading"),
    Instr("RLock", "l.mu"), Instr("RUnlock", "l.mu"),
    Instr("io", "PostProcess"),
    Instr("Lock", "l.mu"), Instr("Unlock", "l.mu"),
    Instr("io", "MarkUploading"),
    Instr("Lock", "l.mu"), Instr("Unlock", "l.mu")>>

Program(p) ==
  CASE p = "manager" -> managerProgram
    [] p = "Add" -> AddProgram
    [] p = "Remove" -> RemoveProgram
    [] p = "Downloading" -> DownloadingProgram
    [] p = "SetTorrentRatio" -> SetTorrentRatioProgram
    [] p = "transfer" -> transferProgram

\* The instruction goroutine p executes next.
Current(p) == Program(p)[lpc[p]]

\* The mutexes goroutine p holds.
Held(p) == {k \in Locks : wr[k] = p \/ p \in rd[k]}

\* p moves on; after its last instruction the function is called again.
Advance(p) == lpc' = [lpc EXCEPT ![p] = IF @ = Len(Program(p)) THEN 1 ELSE @ + 1]

LockInit ==
  /\ DownloaderIdle
  /\ NewTranscoder(MaxCPU)
  /\ HelperIdle
  /\ LockIdle

\* mu.Lock() / mu.RLock() returns.
Acquire(p) ==
  /\ LET k == Current(p).arg IN
     \/ /\ Current(p).op = "Lock"
        /\ wr[k] = "none" /\ rd[k] = {}
        /\ wr' = [wr EXCEPT ![k] = p]
        /\ UNCHANGED rd
     \/ /\ Current(p).op = "RLock"
        /\ wr[k] = "none"
        /\ rd' = [rd EXCEPT ![k] = @ \cup {p}]
        /\ UNCHANGED wr
  /\ Advance(p)
  /\ UNCHANGED <<dvars, tvars, hvars>>

\* mu.Unlock() / mu.RUnlock()
Release(p) ==
  /\ LET k == Current(p).arg IN
     \/ /\ Current(p).op = "Unlock"
        /\ wr' = [wr EXCEPT ![k] = "none"]
        /\ UNCHANGED rd
     \/ /\ Current(p).op = "RUnlock"
        /\ rd' = [rd EXCEPT ![k] = @ \ {p}]
        /\ UNCHANGED wr
  /\ Advance(p)
  /\ UNCHANGED <<dvars, tvars, hvars>>

\* A network or file-system call, or the sleep of the scheduler.
Run(p) ==
  /\ Current(p).op \in {"io", "run"}
  /\ Advance(p)
  /\ UNCHANGED <<wr, rd>>
  /\ UNCHANGED <<dvars, tvars, hvars>>

LockNext ==
  \/ \E p \in Procs : Acquire(p)
  \/ \E p \in Procs : Release(p)
  \/ \E p \in Procs : Run(p)

LockSpec == LockInit /\ [][LockNext]_vars

\* Every goroutine that can run does, and sync.RWMutex starves nobody.
LockFairSpec ==
  /\ LockSpec
  /\ \A p \in Procs : WF_vars(Release(p) \/ Run(p))
  /\ \A p \in Procs : SF_vars(Acquire(p))

(***************************************************************************)
(* Properties.                                                             *)
(***************************************************************************)
InRegistry(o) == o \in Range(transfers)
IsPending(o) == InRegistry(o) /\ ~IsStarted(o) /\ ~IsCompleted(o)
HasRecord(u) == \E i \in 1..Len(transfers) : tr[transfers[i]].URL = u
RecordsOf(u) == {i \in 1..Len(transfers) : tr[transfers[i]].URL = u}
\* Some file of directory d holds data while another is not whole yet.
IsPartial(d) ==
  /\ disk[d].exists
  /\ \E i \in 1..NFiles : disk[d].files[i] # "none"
  /\ \E i \in 1..NFiles : disk[d].files[i] # "full"
\* The worker of o is running.
IsRunning(o) == pc[o] \notin {"idle", "done"}
\* The transfers of the registry that download: active and not uploading.
Downloaders ==
  {i \in 1..Len(transfers) :
     IsActive(transfers[i]) /\ ~tr[transfers[i]].Uploading}

\* C1: with the slot limit fixed at construction, the transfers of the
\* registry that are active and not uploading never number more than the
\* slot limit, and a tick that finds that many starts no worker.
C1_SlotCap ==
  /\ [](ActiveCount <= slots)
  /\ [][(ManagerTick /\ ActiveCount >= slots)
          => \A o \in Objs : tr'[o].Started => tr[o].Started]_vars

\* The cap binds: as many transfers run as there are slots, one more waits.
C1_Witness ==
  /\ phase = "running"
  /\ ActiveCount = slots
  /\ \E o \in Objs : IsPending(o)
  /\ \E o \in Objs : InRegistry(o) /\ IsActive(o) /\ pc[o] # "prepare"

\* C2: no directory the library listing returns is a partial download: a
\* directory holding part of its files is hidden by its .downloading
\* sentinel.
C2_NoPartialListed == \A d \in Range(ListDownloads) : ~IsPartial(d)

\* C3: once completed_at of a transfer is set, the .downloading sentinel
\* of its download dir does not exist, whatever the outcome.
C3_UnmarkedWhenCompleted ==
  \A o \in Objs :
    (tr[o].Completed /\ tr[o].DownloadDir # NoDir) => tr[o].DownloadDir \notin dlmark

\* C4: Add of a target that has a record returns that record's id, which is
\* the digest of the canonical URL, and changes nothing; the registry never
\* holds two records for one URL.
C4_AddIdempotent ==
  /\ [](\A u \in URLs : Cardinality(RecordsOf(u)) <= 1)
  /\ [](\A o \in Objs : InRegistry(o) => tr[o].ID = Md5Hex(tr[o].URL))
  /\ [](\A raw \in RawURLs :
          AddReturn(raw).err = "nil" => AddReturn(raw).id = Md5Hex(Canon(raw)))
  /\ [][\A raw \in RawURLs :
          (Add(raw) /\ Canon(raw) # "error")
            => /\ Cardinality(RecordsOf(Canon(raw)))' = 1
               /\ AddReturn(raw)' = AddReturn(raw)
               /\ HasRecord(Canon(raw)) => UNCHANGED <<transfers, tr>>]_vars

\* A started record of the magnet target, which Add of the upper-case
\* spelling of the same target returns.
C4_Witness ==
  \E o \in Objs :
    /\ InRegistry(o)
    /\ tr[o].Started
    /\ tr[o].URL = MagnetURL
    /\ AddReturn("MAGNET:?xt=m") = [id |-> tr[o].ID, err |-> "nil"]

\* C5: a tick takes every completed transfer out of the registry, and as
\* long as a completed transfer is registered the scheduler has a tick to
\* take; so with the scheduler running none stays registered forever.
C5_PurgeCompleted ==
  /\ [][ManagerTick
          => \A o \in Objs : (InRegistry(o) /\ IsCompleted(o)) => ~InRegistry(o)']_vars
  /\ []((\E o \in Objs : InRegistry(o) /\ IsCompleted(o)) => ENABLED <<ManagerTick>>_vars)

\* The same as a leads-to, under FairSpec.
C5_Eventually ==
  \A o \in Objs : (InRegistry(o) /\ IsCompleted(o)) ~> ~InRegistry(o)

\* A completed transfer waits in the registry for the next tick.
C5_Witness == \E o \in Objs : InRegistry(o) /\ IsCompleted(o)

\* C6: a transfer that is uploading holds no slot: whenever a transfer waits
\* and fewer transfers than the slot limit are active and not uploading,
\* however many are uploading, the tick starts a waiting transfer; and
\* after any tick either nothing waits or the transfers active and not
\* uploading fill the slots.
C6_SeedingHoldsNoSlot ==
  /\ []((/\ phase = "running"
         /\ \E o \in Objs : IsPending(o)
         /\ Cardinality(Downloaders) < slots)
        => ENABLED (ManagerTick /\ \E o \in Objs : IsPending(o) /\ tr'[o].Started))
  /\ [][ManagerTick
          => \/ \A o \in Objs : ~IsPending(o)'
             \/ Cardinality(Downloaders)' >= slots']_vars

\* With one slot, a transfer runs beside an active uploading one.
C6_Witness ==
  /\ slots = 1
  /\ \E o \in Objs : InRegistry(o) /\ IsActive(o) /\ tr[o].Uploading
  /\ \E o \in Objs : InRegistry(o) /\ IsActive(o) /\ ~tr[o].Uploading

\* C7: Remove of a known transfer cancels the worker's context, drops the
\* torrent handle, and deletes the download dir exactly when the transfer
\* is not uploading, for torrent and friend transfers alike.
C7_RemoveDeletesDir ==
  [][\A id \in IDs :
       (Remove(id) /\ findByID(id) # 0)
         => LET o == findByID(id) IN
            /\ (tr[o].Cancel /\ IsRunning(o)) => ctxDone'[o]
            /\ (tr[o].Torrent /\ IsRunning(o)) => tor'[o].dropped
            /\ tr[o].DownloadDir # NoDir
                 => IF tr[o].Uploading
                    THEN disk'[tr[o].DownloadDir] = disk[tr[o].DownloadDir]
                    ELSE ~disk'[tr[o].DownloadDir].exists]_vars

C9_CancelledExitsUnmarked ==
  [][\A o \in Objs :
       (~InRegistry(o) /\ IsRunning(o) /\ ctxDone[o]
          /\ pc[o] # "cleanup" /\ pc'[o] = "cleanup")
         => (tr[o].DownloadDir \notin dlmark' /\ tr[o].DownloadDir \notin upmark')]_vars

\* C10: from construction until the first transfer is admitted, no
\* .downloading or .uploading file exists under the root.
C10_StartupReconciled ==
  (phase = "running" /\ \A o \in Objs : pc[o] = "idle")
    => (dlmark = {} /\ upmark = {})

\* The first transfer has just been admitted and no sentinel exists.
C10_Witness ==
  /\ phase = "running"
  /\ \E o \in Objs : pc[o] = "prepare" /\ \A n \in Objs \ {o} : pc[n] = "idle"
  /\ dlmark = {} /\ upmark = {}

\* C11: when the disk-space gate denies a torrent transfer, the worker
\* leaves with ErrInsufficientStorage, the torrent handle is dropped and no
\* .downloading or .uploading sentinel of the torrent's directory exists.
C11_InsufficientStorageClean ==
  [][\A o \in Objs :
       (pc[o] = "torrent_info" /\ pc'[o] = "cleanup")
         => /\ werr'[o] = "ErrInsufficientStorage"
            /\ tor'[o].dropped
            /\ DirOf(tr[o].URL) \notin dlmark'
            /\ DirOf(tr[o].URL) \notin upmark']_vars

C13_MetaURLDownloads ==
  \A o \in Objs :
    (/\ InRegistry(o) /\ tr[o].URL = MetaURL
     /\ tr[o].Completed /\ tr[o].Error = "nil")
      => (tr[o].Torrent /\ tor[o].missing = 0)

\* C14: whenever Add of a target returns success with a record of the
\* registry, that record has a lifecycle ahead: it is not completed.
C14_ResubmissionNotLost ==
  \A raw \in RawURLs :
    (/\ phase = "running" /\ AddReturn(raw).err = "nil"
     /\ findByURL(Canon(raw)) # 0)
      => ~IsCompleted(findByURL(Canon(raw)))

\* C15: no worker takes as its download dir a directory the library
\* already lists as a download.
C15_NameConflictFails ==
  [][\A o \in Objs :
       (tr[o].DownloadDir = NoDir /\ tr'[o].DownloadDir # NoDir)
         => tr'[o].DownloadDir \notin Range(ListDownloads)]_vars

\* C20: the registry is in insertion order, and no step starts a transfer
\* while a record ahead of it in the registry is left pending.
C20_AdmissionInOrder ==
  /\ [](\A i, j \in 1..Len(transfers) : i < j => transfers[i] < transfers[j])
  /\ [][\A i, j \in 1..Len(transfers) :
          (/\ i < j
           /\ ~tr[transfers[j]].Started /\ tr'[transfers[j]].Started)
            => ~(/\ transfers[i] \in Range(transfers')
                 /\ ~tr'[transfers[i]].Started
                 /\ ~tr'[transfers[i]].Completed)]_vars

\* With one slot, the older of two waiting transfers was started and the
\* newer still waits.
C20_Witness ==
  /\ slots = 1
  /\ Len(transfers) = 2
  /\ pc[transfers[1]] = "prepare"
  /\ IsPending(transfers[2])

\* The transcode goroutines spawned and not yet returned.
LiveJobs == {w \in Jobs : job[w].pc \notin {"none", "exit"}}

\* C16: the transcode queue never holds a path twice, and no path of the
\* queue has a key in the running map.
C16_QueueIsSet ==
  /\ \A i, j \in 1..Len(queue) : i # j => queue[i] # queue[j]
  /\ \A srcname \in Paths : queued(srcname) => running[srcname] = 0

\* C17: the transcode goroutines spawned and not yet returned never number
\* more than concurrency.
C17_ConcurrencyCap == Cardinality(LiveJobs) <= concurrency

\* C18: every destination file is absent or at least a fifth of the size
\* of its source.
C18_OutputValidated ==
  \A srcname \in Paths :
    LET dst == filenames(srcname).dst IN
    files[dst] = 0 \/ files[dst] >= SrcSize \div 5

\* C19: whenever Cancel of a path that is in the running map returns
\* success, the encoder child of that job has been killed by it.
C19_CancelKills ==
  \A srcname \in Paths :
    (/\ ~queued(srcname) /\ running[srcname] # 0
     /\ CancelReturn(srcname) = "nil")
      => ENABLED (/\ TranscoderCancel(srcname)
                  /\ job'[running[srcname]].cmd = "killed")

\* C21: the job a step hands to a new worker is the head of the queue, the
\* rest of the queue stays as it was, and every other step that changes
\* the queue appends one path or takes every copy of one path out, so the
\* entries that stay keep their order.
C21_TranscodeFIFO ==
  /\ [][njob' # njob
          => /\ Len(queue) > 0
             /\ njob' = njob + 1
             /\ job'[njob'].src = queue[1]
             /\ job'[njob'].pc = "stat"
             /\ queue' = Tail(queue)]_vars
  /\ [][(njob' = njob /\ queue' # queue)
          => \/ \E srcname \in Paths : queue' = Append(queue, srcname)
             \/ \E srcname \in Paths :
                  queue' = SelectSeq(queue, LAMBDA j : j # srcname)]_vars

\* The first worker was handed one path while a different path, queued
\* behind it, still waits.
C21_Witness ==
  /\ njob = 1
  /\ job[1].pc = "stat"
  /\ Len(queue) = 1
  /\ queue[1] # job[1].src
  /\ \A c \in Callers : call[c].pc = "idle"

\* C22: ListPending is the registry restricted to the transfers neither
\* started nor completed, ListActive the registry restricted to the
\* transfers started and not completed, both in registry order.
C22_ListingsExact ==
  /\ ListPending = SelectSeq(transfers, LAMBDA o : ~tr[o].Started /\ ~tr[o].Completed)
  /\ ListActive = SelectSeq(transfers, LAMBDA o : tr[o].Started /\ ~tr[o].Completed)

\* C23: the gate denies a transfer of size r with f bytes free exactly
\* when r >= 0.95 * f, the case r = 0.95 * f included.
C23_GateDeniesAtReserve ==
  last.fn = "availableStorage"
    => (last.out = FALSE <=> last.arg[1] * 100 >= 95 * last.arg[2])

\* A transfer of exactly 95% of the free space was denied.
C23_Witness ==
  /\ last.fn = "availableStorage"
  /\ last.arg = <<19, 20>>
  /\ last.out = FALSE

\* C24: a friend pull with a download id shorter than 3 or longer than 200
\* fails with the invalid-id error and creates no sentinel; ids of length
\* 3 and 200 pass the test; an empty file list fails with the no-files error
\* whatever the id.
C24_DownloadIDValidated ==
  last.fn = "transferFriend"
    => LET nfiles == last.arg[1]
           idlen == last.arg[2] IN
       /\ nfiles = 0 => last.out.err = "no files found"
       /\ (nfiles > 0 /\ (idlen < 3 \/ idlen > 200))
            => /\ last.out.err = "missing or invalid download id"
               /\ ~last.out.marked
       /\ (nfiles > 0 /\ idlen \in {3, 200})
            => last.out.err # "missing or invalid download id"
       /\ last.out.marked => last.out.err = "nil"

\* A pull with files and an id of two characters failed on the id.
C24_Witness ==
  /\ last.fn = "transferFriend"
  /\ last.arg[1] > 0
  /\ last.arg[2] = 2
  /\ last.out.err = "missing or invalid download id"
  /\ ~last.out.marked

\* C25: no directory under the root holds only part of a download's files.
C25_AtomicMaterialization == \A d \in Dirs : ~IsPartial(d)

\* C26: after a Share that returned nil the marker exists, after an
\* Unshare that returned nil it does not; an Unshare fails only on a marker
\* that exists (so an Unshare of a download that is not shared succeeds),
\* and a Share of a shared download succeeds and leaves the markers as they
\* are.
C26_ShareIdempotent ==
  /\ []((last.fn = "Share" /\ last.out = "nil") => Shared(last.arg[1]))
  /\ []((last.fn = "Unshare" /\ last.out = "nil") => ~Shared(last.arg[1]))
  /\ []((last.fn = "Unshare" /\ last.out # "nil") => Shared(last.arg[1]))
  /\ [][\A id \in Dirs :
          (Shared(id) /\ last'.fn = "Share" /\ last'.arg = <<id>>)
            => (last'.out = "nil" /\ shared' = shared)]_vars
  /\ [][\A id \in Dirs :
          (~Shared(id) /\ last'.fn = "Unshare" /\ last'.arg = <<id>>)
            => (last'.out = "nil" /\ shared' = shared)]_vars

\* A download was shared and unshared again: the .shared directory is
\* there, the marker is not, and the last Unshare returned nil.
C26_Witness ==
  /\ sharedDir
  /\ shared = {}
  /\ last = [fn |-> "Unshare", arg |-> <<1>>, out |-> "nil"]

\* C27: the library listing is ordered by name, descending.
C27_ListingDescending ==
  last.fn = "ls"
    => \A i, j \in 1..Len(last.out) : i < j => last.out[i] >= last.out[j]

\* C28: a worker is spawned only for a registered record that was never
\* started and has no worker, in the step that sets Started; while a record
\* is reachable Started and Completed are never reset; Completed implies
\* Started; and Torrent, DownloadDir, Error and Completed of a record change
\* only in steps of its own worker.
C28_SingleWorkerMonotone ==
  /\ [](\A o \in Objs : tr[o].Completed => tr[o].Started)
  /\ [][\A o \in Objs :
          (pc'[o] = "prepare" /\ pc[o] # "prepare")
            => /\ pc[o] = "idle"
               /\ InRegistry(o)
               /\ ~tr[o].Started /\ ~tr[o].Completed
               /\ tr'[o].Started]_vars
  /\ [][\A o \in Objs \ Garbage(transfers', pc') :
          /\ tr[o].Started => tr'[o].Started
          /\ tr[o].Completed => tr'[o].Completed
          /\ (\/ tr'[o].Torrent # tr[o].Torrent
              \/ tr'[o].DownloadDir # tr[o].DownloadDir
              \/ tr'[o].Error # tr[o].Error
              \/ tr'[o].Completed # tr[o].Completed)
               => (IsRunning(o) /\ pc'[o] # pc[o])]_vars

\* A registered record went through its one worker: started, completed,
\* download dir set, worker gone.
C28_Witness ==
  \E o \in Objs :
    /\ InRegistry(o)
    /\ tr[o].Started /\ tr[o].Completed
    /\ tr[o].DownloadDir # NoDir
    /\ pc[o] = "done"

\* C29: a job handed to a worker whose encoder has not started yet is
\* queued or in the running map, Active is true for its path, Cancel of its
\* path does not fail with "no transcoding job found", and Busy is true.
C29_QueuedOrRunning ==
  \A w \in Jobs :
    job[w].pc \in {"stat", "register", "start"}
      => LET srcname == job[w].src IN
         /\ queued(srcname) \/ running[srcname] = w
         /\ Active(srcname)
         /\ CancelReturn(srcname) # "no transcoding job found"
         /\ TranscoderBusy

\* C30: after a tick of the scheduler that handed out a job, the queue is
\* empty or the running jobs, the ones just handed out included, have
\* reached the concurrency.
C30_TickFillsWorkers ==
  [][njob' # njob
       => \/ Len(queue') = 0
          \/ RunningCount' >= concurrency'
          \/ Cardinality(LiveJobs') >= concurrency']_vars

\* C31: when a worker that had registered its child returns, its source
\* path is not in the running map and its temp file does not exist.
C31_WorkerCleansUp ==
  [][\A w \in Jobs :
       (job[w].pc = "rmtmp" /\ job'[w].pc = "exit")
         => /\ running'[job[w].src] = 0
            /\ files'[filenames(job[w].src).tmp] = 0]_vars

\* C32: a step of a friend worker inside its loop touches no file but the
\* one of its index; the index moves on by one, and only past a file that
\* is written whole or gone; a step that ends the loop with an error stores
\* the error and leaves every file as it is; and a worker that has left the
\* loop for its cleanup fetches nothing more and leaves the disk alone.
C32_FriendLoopInOrder ==
  /\ [][\A o \in Objs :
          (pc[o] \in {"friend_get", "friend_copy"} /\ pc'[o] # pc[o])
            => LET d == tr[o].DownloadDir
                   k == fidx[o] IN
               /\ \A i \in (1..NFiles) \ {k} :
                    disk'[d].files[i] = disk[d].files[i]
               /\ fidx'[o] \in {k, k + 1}
               /\ fidx'[o] = k + 1 => disk'[d].files[k] \in {"full", "none"}
               /\ pc'[o] = "cleanup"
                    => /\ werr'[o] # "nil"
                       /\ disk'[d].files = disk[d].files
                       /\ fidx'[o] = k]_vars
  /\ [][\A o \in Objs :
          pc[o] = "cleanup"
            => (pc'[o] \in {"cleanup", "done"} /\ (pc'[o] = "done" => disk' = disk))]_vars
  /\ [][\A o \in Objs : pc[o] = "done" => pc'[o] = "done"]_vars

\* A friend pull failed at its second file: the record is completed with
\* the error, the first file is whole and the second is partial.
C32_Witness ==
  \E o \in Objs :
    /\ InRegistry(o)
    /\ IsFriendURL(tr[o].URL)
    /\ tr[o].Completed
    /\ tr[o].Error = "transport"
    /\ tr[o].DownloadDir # NoDir
    /\ disk[tr[o].DownloadDir].files[1] = "full"
    /\ disk[tr[o].DownloadDir].files[2] = "part"

\* C33: Uploading becomes true only in a step of a torrent worker whose
\* record has a non-zero seed ratio, with nothing missing, and that worker
\* got there by the step that removed its .downloading sentinel; Uploading
\* is never reset while the record is reachable; a friend transfer and a
\* transfer with seed ratio 0 never have Uploading set; and an .uploading
\* sentinel is created only by such a torrent worker once Uploading is set.
C33_UploadingOnlyWhenSeeding ==
  /\ [](\A o \in Objs :
          (IsFriendURL(tr[o].URL) \/ tr[o].SeedRatio = 0) => ~tr[o].Uploading)
  /\ [][\A o \in Objs :
          (tr'[o].Uploading /\ ~tr[o].Uploading)
            => /\ pc[o] = "set_uploading"
               /\ ~IsFriendURL(tr[o].URL)
               /\ tr[o].Torrent
               /\ tr[o].SeedRatio # 0
               /\ tor[o].missing = 0]_vars
  /\ [][\A o \in Objs :
          (pc'[o] = "set_uploading" /\ pc[o] # "set_uploading")
            => /\ tor[o].missing = 0
               /\ tr[o].DownloadDir \notin dlmark']_vars
  /\ [][\A o \in Objs \ Garbage(transfers', pc') :
          tr[o].Uploading => tr'[o].Uploading]_vars
  /\ [][\A d \in upmark' \ upmark :
          \E o \in Objs :
            /\ pc[o] = "mark_uploading"
            /\ tr[o].DownloadDir = d
            /\ tr[o].Uploading
            /\ ~IsFriendURL(tr[o].URL)
            /\ tr[o].SeedRatio # 0]_vars

\* A torrent is seeding: Uploading set, the .uploading sentinel there and
\* the .downloading sentinel gone.
C33_Witness ==
  \E o \in Objs :
    /\ tr[o].Uploading
    /\ tr[o].SeedRatio # 0
    /\ tr[o].DownloadDir \in upmark
    /\ tr[o].DownloadDir \notin dlmark
    /\ pc[o] = "loop"

\* C35: the record Add inserts carries the ratio configured at that
\* moment, and no later step changes the seed ratio of a record; a tick
\* decides with the slot limit configured at that moment: it never starts a
\* transfer beyond it, and it has a transfer to start whenever one waits
\* and fewer than the limit are active and not uploading.
C35_RatioSnapshotSlotsLive ==
  /\ [][\A o \in Objs :
          (tr[o].URL = NoURL /\ tr'[o].URL # NoURL)
            => tr'[o].SeedRatio = ratio]_vars
  /\ [][\A o \in Objs \ Garbage(transfers', pc') :
          tr[o].URL # NoURL => tr'[o].SeedRatio = tr[o].SeedRatio]_vars
  /\ [][(\E o \in Objs : ~tr[o].Started /\ tr'[o].Started)
          => Cardinality(Downloaders)' <= slots]_vars
  /\ []((/\ phase = "running"
         /\ \E o \in Objs : IsPending(o)
         /\ Cardinality(Downloaders) < slots)
        => ENABLED (ManagerTick /\ \E o \in Objs : IsPending(o) /\ tr'[o].Started))

\* Both settings were changed under running transfers: a record keeps a
\* ratio that is no longer the configured one, and two transfers run under
\* a limit lowered to one, beside which a third cannot start.
C35_Witness ==
  /\ slots = 1
  /\ Cardinality(Downloaders) = 2
  /\ \E o \in Objs : InRegistry(o) /\ tr[o].SeedRatio # ratio

\* C36: every sentinel under the root of the running engine is the
\* sentinel of the download dir of a transfer that is still registered: a
\* sentinel is gone by the time its transfer leaves the registry.
C36_SentinelsOwned ==
  phase = "running"
    => \A d \in dlmark \cup upmark :
         \E o \in Objs : InRegistry(o) /\ DirOf(tr[o].URL) = d

\* C37: a step that takes a torrent transfer out of the registry whose
\* download is finished (nothing missing, PostProcess passed) leaves its
\* download dir on disk.
C37_RemoveKeepsFinished ==
  [][\A o \in Objs :
       (/\ InRegistry(o) /\ ~InRegistry(o)'
        /\ tr[o].Torrent /\ tor[o].missing = 0
        /\ tr[o].DownloadDir # NoDir
        /\ \/ pc[o] \in {"set_uploading", "mark_uploading"}
           \/ tr[o].Uploading
           \/ pc[o] = "cleanup" /\ werr[o] = "nil" /\ ~ctxDone[o]
           \/ tr[o].Completed /\ tr[o].Error = "nil")
         => (disk[tr[o].DownloadDir].exists
               => disk'[tr[o].DownloadDir].exists)]_vars

\* C38: no two workers of one target have the same download dir at the
\* same time, and a step of the worker of a removed transfer, or the
\* Remove of it, takes neither the .downloading sentinel nor a file away
\* from the worker of the transfer registered for the same target since.
C38_OldWorkerSparesNew ==
  /\ [](\A o, n \in Objs :
          (/\ o # n /\ IsRunning(o) /\ IsRunning(n)
           /\ tr[o].URL = tr[n].URL
           /\ tr[o].DownloadDir # NoDir)
            => tr[o].DownloadDir # tr[n].DownloadDir)
  /\ [][\A o, n \in Objs :
          (/\ ~InRegistry(o) /\ IsRunning(o) /\ pc'[o] # pc[o]
           /\ InRegistry(n) /\ IsRunning(n) /\ tr[n].URL = tr[o].URL
           /\ tr[n].DownloadDir # NoDir)
            => LET d == tr[n].DownloadDir IN
               /\ d \in dlmark => d \in dlmark'
               /\ \A i \in 1..NFiles :
                    disk[d].files[i] # "none" => disk'[d].files[i] # "none"]_vars

\* C39: in a library where the destination of each source exists, the
\* first worker to run, when it leaves by a failure (the child did not
\* start or failed, the rename failed, the output was missing or too
\* small), leaves its source and its destination as they were.
C39_FailureKeepsFiles ==
  [][\A w \in Jobs :
       (/\ njob = 1
        /\ job[w].pc \in {"start", "wait", "rename", "check"}
        /\ job'[w].pc = "defer")
         => LET n == filenames(job[w].src) IN
            /\ files'[n.src] = SrcSize
            /\ files'[n.dst] = SrcSize]_vars

\* C34: a goroutine about to make a network or file-system call holds
\* neither mutex.
C34_NoIOUnderLock ==
  \A p \in Procs : Current(p).op = "io" => Held(p) = {}

\* C40: no goroutine asks for a mutex it holds; no goroutine asks for the
\* registry lock while it holds the config lock; and every goroutine that
\* asks for a mutex gets it.
C40_LockOrder ==
  /\ [](\A p \in Procs :
          Current(p).op \in {"Lock", "RLock"} => Current(p).arg \notin Held(p))
  /\ [](\A p \in Procs :
          (Current(p).op \in {"Lock", "RLock"} /\ Current(p).arg = "l.mu")
            => "c.mu" \notin Held(p))
  /\ \A p \in Procs : \A k \in Locks :
       (Current(p).op \in {"Lock", "RLock"} /\ Current(p).arg = k)
         ~> (k \in Held(p))

\* Add holds the registry lock and waits for the config lock, which a
\* setter holds.
C40_Witness ==
  /\ wr["l.mu"] = "Add"
  /\ Current("Add") = Instr("RLock", "c.mu")
  /\ wr["c.mu"] = "SetTorrentRatio"

====
